---- MODULE Spec2Model ----
(***************************************************************************)
(* Beep-pattern decoder of ups-power-status-from-beeps (src/src/main.rs,   *)
(* the polling variant) and of the callback variant (src/main.rs).         *)
(* Durations are whole milliseconds.                                       *)
(*                                                                         *)
(* std::time::Instant is opaque: the only thing the program does with an   *)
(* instant is now.duration_since(it).  A stored instant is therefore kept  *)
(* as the time elapsed since it was taken, Some(0) being "now"; every poll *)
(* that returns after dt milliseconds moves all stored instants dt further *)
(* into the past (Tick).                                                   *)
(*                                                                         *)
(* The source does not compile as it stands, in two places that matter:    *)
(*  - MAX_BOUNCE_DURATION (lines 90, 120) is not defined.  The same name   *)
(*    is used at both places, so a build has one value for both; the two   *)
(*    bounce constants the source does define (lines 14, 15) are the       *)
(*    candidates and the model leaves the choice open.                     *)
(*  - close_enough takes error_margin: f64 (line 171) and is handed a      *)
(*    Duration (lines 161, 162).  The model leaves open whether the build  *)
(*    passes ERROR_MARGIN (line 6) or the Duration as seconds              *)
(*    (as_secs_f64: 0.05 and 0.3).  Margins are exact rationals num/den.   *)
(***************************************************************************)
EXTENDS Integers, Sequences, FiniteSets, TLC

VARIABLES
  beep_durations,           \* line 64
  inter_beep_durations,     \* line 65
  current_beep_start_time,  \* line 67: None or Some(elapsed)
  last_beep_end_time,       \* line 68: None or Some(elapsed)
  last_status,              \* line 70: "None" or a Status
  MAX_BOUNCE_DURATION,      \* lines 90, 120: the undefined threshold
  margin_conv,              \* lines 161-162, 171: how the Duration becomes the f64 margin
  stdout,                   \* line 154: the line printed last, "None" before the first
  line,                     \* the input pin: level after the last edge and how long it has been held
  source,                   \* the edge source: free within a grid, or a fixed script of events
  polls,                    \* line 73: number of poll_interrupt returns so far
  obs,                      \* what the latest loop iteration (lines 73-147) did
  track,                    \* bookkeeping: the beep in progress, the latest bounce, the run of equal classifications
  classify,                 \* a stand-alone call of get_status_from_beep_durations
  callback                  \* src/main.rs: the mutex, the tuple behind it and the handlers in flight

vars == <<beep_durations, inter_beep_durations, current_beep_start_time,
          last_beep_end_time, last_status, MAX_BOUNCE_DURATION, margin_conv,
          stdout, line, source, polls, obs, track, classify, callback>>

decoder == <<beep_durations, inter_beep_durations, current_beep_start_time,
             last_beep_end_time, last_status, stdout, line, source, polls,
             obs, track>>

-----------------------------------------------------------------------------
(* Constants of the program, in milliseconds.                              *)

MAX_ENTRIES == 10
TIMEOUT_DURATION == 3000
ZERO_DURATION == 0
TARGET_NORMAL_BEEP_DURATION == 250
TARGET_LONG_BEEP_DURATION == 2000
BEEP_BOUNCE_MAX_DURATION == 50
INTER_BEEP_BOUNCE_MAX_DURATION == 300

\* ERROR_MARGIN = 0.05 as a fraction
ERROR_MARGIN == [num |-> 5, den |-> 100]

Status == {"OnMains", "OnBattery", "LowOnBattery", "NoLoadOnBattery",
           "OverloadOrShortCircuitOnBattery", "OverloadOrShortCircuitOnMains",
           "AdvanceLowRuntimeOnMains", "OverTemperatureOnMains",
           "OverTemperatureOnBatteryOrInternalError", "ReplaceBattery",
           "Unknown"}

Row(s, b, g) == [status |-> s, beep |-> b, gap |-> g]

STATUS_BEEP_DURATIONS ==
  << Row("OnBattery", TARGET_NORMAL_BEEP_DURATION, 60 * 1000),
     Row("LowOnBattery", TARGET_NORMAL_BEEP_DURATION, 1 * 1000),
     Row("NoLoadOnBattery", TARGET_NORMAL_BEEP_DURATION, 10 * 1000),
     Row("OverloadOrShortCircuitOnBattery", TARGET_NORMAL_BEEP_DURATION, 2 * 1000),
     Row("OverloadOrShortCircuitOnMains", TARGET_LONG_BEEP_DURATION, 2 * 1000),
     Row("AdvanceLowRuntimeOnMains", TARGET_LONG_BEEP_DURATION, 13 * 1000),
     Row("OverTemperatureOnMains", TARGET_NORMAL_BEEP_DURATION, 4 * 1000),
     Row("OnMains", ZERO_DURATION, TIMEOUT_DURATION),
     Row("OverTemperatureOnBatteryOrInternalError", TIMEOUT_DURATION, ZERO_DURATION),
     Row("ReplaceBattery", TARGET_LONG_BEEP_DURATION, 40 * 1000) >>

-----------------------------------------------------------------------------
(* Option<Instant> and the clock.                                          *)

None == <<>>
Some(x) == <<x>>
Now == Some(0)
duration_since(instant) == instant[1]
Tick(instant, dt) == IF instant = None THEN None ELSE Some(instant[1] + dt)

Abs(x) == IF x < 0 THEN -x ELSE x
\* first() where the code calls last()
First(s) == s[1]

Last(s) == s[Len(s)]
Front(s) == SubSeq(s, 1, Len(s) - 1)

-----------------------------------------------------------------------------
(* The classifier, lines 158-174.                                          *)

\* The f64 the build hands to close_enough for a Duration argument.
MarginOf(bounce) ==
  IF margin_conv = "ERROR_MARGIN" THEN ERROR_MARGIN
  ELSE [num |-> bounce, den |-> 1000]

\* the comparison with a margin five times too narrow
close_enough_narrow(duration, target, error_margin) ==
  Abs(duration - target) * error_margin.den * 5 < target * error_margin.num

\* the comparison with a margin ten times too wide
close_enough_wide(duration, target, error_margin) ==
  Abs(duration - target) * error_margin.den < target * error_margin.num * 10

\* |duration - target| < target * error_margin, in exact arithmetic
close_enough(duration, target, error_margin) ==
  Abs(duration - target) * error_margin.den < target * error_margin.num

RowMatches(row, beep, inter_beep) ==
  /\ close_enough(beep, row.beep, MarginOf(BEEP_BOUNCE_MAX_DURATION))
  /\ close_enough(inter_beep, row.gap, MarginOf(INTER_BEEP_BOUNCE_MAX_DURATION))

\* the scan that keeps going after a match: the last matching row wins
RECURSIVE ScanTableLast(_, _, _)
ScanTableLast(table, beep, inter_beep) ==
  IF table = <<>> THEN "Unknown"
  ELSE LET later == ScanTableLast(Tail(table), beep, inter_beep)
       IN IF later # "Unknown" THEN later
          ELSE IF RowMatches(Head(table), beep, inter_beep) THEN Head(table).status
          ELSE "Unknown"

\* lines 159-168: the first row whose two comparisons pass, else Unknown
RECURSIVE ScanTable(_, _, _)
ScanTable(table, beep, inter_beep) ==
  IF table = <<>> THEN "Unknown"
  ELSE IF RowMatches(Head(table), beep, inter_beep) THEN Head(table).status
  ELSE ScanTable(Tail(table), beep, inter_beep)

get_status_from_beep_durations(beep, inter_beep) ==
  ScanTable(STATUS_BEEP_DURATIONS, beep, inter_beep)

-----------------------------------------------------------------------------
(* The reporter, lines 151-156: the new last_status and what is printed.   *)

\* the reporter without the comparison of line 152
update_and_report_always(last, new_status) ==
  [last_status |-> new_status, printed |-> <<new_status>>]

update_and_report_status(last, new_status) ==
  IF last # new_status
    THEN [last_status |-> new_status, printed |-> <<new_status>>]
    ELSE [last_status |-> last, printed |-> <<>>]

-----------------------------------------------------------------------------
(* The measurement history and the pending markers, lines 78-132.          *)

\* the push without lines 92-94
PushUnbounded(history, duration) == Append(history, duration)

\* pop() where line 93 calls remove(0): over capacity the newest entry goes
PushEvictNewest(history, duration) ==
  LET pushed == Append(history, duration)
  IN IF Len(pushed) > MAX_ENTRIES THEN Front(pushed) ELSE pushed

\* lines 91-94 and 121-124: push, then drop the oldest entry when over capacity
Push(history, duration) ==
  LET pushed == Append(history, duration)
  IN IF Len(pushed) > MAX_ENTRIES THEN Tail(pushed) ELSE pushed

\* the pop left out: a bounce corrects nothing
PopNothing(history) == history

\* clear() where the code calls pop()
PopAll(history) == <<>>

\* lines 101-103 and 125-127: drop the newest entry, if there is one
Pop(history) == IF Len(history) > 0 THEN Front(history) ELSE history

\* the comparison of lines 90 and 120 dropped: every measurement counts
NeverBounce(duration) == duration >= 0

\* lines 90 and 120: the measurement is longer than a bounce
BeyondBounce(duration) == duration > MAX_BOUNCE_DURATION

\* the marker without the `if let None` guard: every edge overwrites it
SetAlways(marker) == Now

\* lines 81-83 and 111-113: the marker keeps an instant it already holds
SetIfNone(marker) == IF marker = None THEN Now ELSE marker

\* the marker without the reset of lines 106 and 130
ConsumeKeeps(marker) == marker

\* lines 106 and 130: the marker that was measured against is consumed
Consume(marker) == None

\* What one loop iteration leaves behind: the decoder's new state, the
\* argument of update_and_report_status if it is called (call), and a
\* description of what it did.
Outcome(beeps, gaps, cbs, lbe, call, args, measured, committed, popped) ==
  [beeps |-> beeps, gaps |-> gaps, cbs |-> cbs, lbe |-> lbe, call |-> call,
   args |-> args, measured |-> measured, committed |-> committed,
   popped |-> popped]

\* lines 78-107: poll_interrupt returned Level::Low, dt after the previous return
LowBranch(dt) ==
  LET cbs == Tick(current_beep_start_time, dt)
      lbe == SetIfNone(Tick(last_beep_end_time, dt))
  IN IF cbs = None
       THEN Outcome(beep_durations, inter_beep_durations, cbs, lbe,
                    <<>>, <<>>, None, "none", "none")
       ELSE LET beep_duration == duration_since(cbs) IN
            IF BeyondBounce(beep_duration)
              THEN LET beeps == Push(beep_durations, beep_duration)
                       both == beeps # <<>> /\ inter_beep_durations # <<>>
                   IN Outcome(beeps, inter_beep_durations, Consume(cbs), lbe,
                        IF both
                          THEN <<get_status_from_beep_durations(
                                   Last(beeps), Last(inter_beep_durations))>>
                          ELSE <<>>,
                        IF both THEN <<Last(beeps), Last(inter_beep_durations)>>
                                ELSE <<>>,
                        Some(beep_duration), "beep", "none")
              ELSE Outcome(beep_durations, Pop(inter_beep_durations),
                           Consume(cbs), lbe, <<>>, <<>>, Some(beep_duration), "none",
                           IF Len(inter_beep_durations) > 0 THEN "gap" ELSE "none")

\* lines 108-132: poll_interrupt returned Level::High
HighBranch(dt) ==
  LET cbs == SetIfNone(Tick(current_beep_start_time, dt))
      lbe == Tick(last_beep_end_time, dt)
  IN IF lbe = None
       THEN Outcome(beep_durations, inter_beep_durations, cbs, lbe,
                    <<>>, <<>>, None, "none", "none")
       ELSE LET inter_beep_duration == duration_since(lbe) IN
            IF BeyondBounce(inter_beep_duration)
              THEN Outcome(beep_durations,
                           Push(inter_beep_durations, inter_beep_duration),
                           cbs, Consume(lbe), <<>>, <<>>,
                           Some(inter_beep_duration), "gap", "none")
              ELSE Outcome(Pop(beep_durations), inter_beep_durations,
                           cbs, Consume(lbe), <<>>, <<>>,
                           Some(inter_beep_duration), "none",
                           IF Len(beep_durations) > 0 THEN "beep" ELSE "none")

\* the timeout without the guard of line 135: it classifies whatever the histories hold
TimeoutBranchUnguarded ==
  LET cbs == Tick(current_beep_start_time, TIMEOUT_DURATION)
      lbe == Tick(last_beep_end_time, TIMEOUT_DURATION)
      idle == Outcome(beep_durations, inter_beep_durations, cbs, lbe,
                      <<>>, <<>>, None, "none", "none")
  IN IF cbs # None /\ lbe = None
       THEN [idle EXCEPT
               !.call = <<get_status_from_beep_durations(
                            TIMEOUT_DURATION, ZERO_DURATION)>>,
               !.args = <<TIMEOUT_DURATION, ZERO_DURATION>>]
     ELSE IF cbs = None /\ lbe # None
       THEN [idle EXCEPT
               !.call = <<get_status_from_beep_durations(
                            ZERO_DURATION, TIMEOUT_DURATION)>>,
               !.args = <<ZERO_DURATION, TIMEOUT_DURATION>>]
     ELSE [idle EXCEPT !.call = <<"Unknown">>]

\* lines 133-147: poll_interrupt returned None after TIMEOUT_DURATION
TimeoutBranch ==
  LET cbs == Tick(current_beep_start_time, TIMEOUT_DURATION)
      lbe == Tick(last_beep_end_time, TIMEOUT_DURATION)
      idle == Outcome(beep_durations, inter_beep_durations, cbs, lbe,
                      <<>>, <<>>, None, "none", "none")
  IN IF beep_durations # <<>> /\ inter_beep_durations # <<>>
       THEN IF cbs # None /\ lbe = None
              THEN [idle EXCEPT
                      !.call = <<get_status_from_beep_durations(
                                   TIMEOUT_DURATION, ZERO_DURATION)>>,
                      !.args = <<TIMEOUT_DURATION, ZERO_DURATION>>]
            ELSE IF cbs = None /\ lbe # None
              THEN [idle EXCEPT
                      !.call = <<get_status_from_beep_durations(
                                   ZERO_DURATION, TIMEOUT_DURATION)>>,
                      !.args = <<ZERO_DURATION, TIMEOUT_DURATION>>]
            ELSE [idle EXCEPT !.call = <<"Unknown">>]
       ELSE idle

-----------------------------------------------------------------------------
(* The edge source (rppal's poll_interrupt, line 73) and the input line.   *)
(* In mode "free" it delivers an edge of either level whenever the line    *)
(* has been held for a time on its grid, and a timeout while the line has  *)
(* been still for at most max_held; it stops after horizon polls.  In mode *)
(* "script" it plays a fixed sequence of events.                           *)

Event(level, dt) == [level |-> level, dt |-> dt]

Offers(level, dt) ==
  IF source.mode = "free"
    THEN /\ polls < source.horizon
         /\ IF level = "Timeout"
              THEN line.held + dt <= source.max_held
              ELSE line.held + dt \in source.grid
    ELSE /\ source.script # <<>>
         /\ Head(source.script) = Event(level, dt)

Delays ==
  IF source.mode = "free"
    THEN {e - line.held : e \in {g \in source.grid : g > line.held}}
    ELSE IF source.script = <<>> THEN {} ELSE {Head(source.script).dt}

Consumed ==
  IF source.mode = "free" THEN source
  ELSE [source EXCEPT !.script = Tail(@)]

Held(level, dt) ==
  IF level = "Timeout" \/ level = line.level
    THEN [line EXCEPT !.held = @ + dt]
    ELSE [level |-> level, held |-> 0]

-----------------------------------------------------------------------------
(* One iteration of the loop, lines 72-148.                                *)

Min(a, b) == IF a < b THEN a ELSE b

\* The bookkeeping after an iteration with outcome r that printed `printed`.
Tracked(level, r, printed) ==
  LET starts == level = "High" /\ current_beep_start_time = None
      bounce == level = "Low" /\ r.measured # None /\ r.committed = "none"
      ends   == level = "Low" /\ r.committed = "beep"
      emitted == IF printed = <<>> THEN 0 ELSE 1
  IN [before_start |->
        IF starts
          THEN [beeps |-> Len(beep_durations), gaps |-> inter_beep_durations,
                committed |-> r.committed = "gap"]
          ELSE track.before_start,
      bounced |-> IF bounce THEN <<track.before_start.beeps,
                                   track.before_start.committed>>
                  ELSE IF ends THEN None ELSE track.bounced,
      merged |-> IF ends THEN track.bounced ELSE None,
      run_status |-> IF r.call = <<>> THEN track.run_status ELSE r.call[1],
      run_emits |->
        IF r.call = <<>> THEN track.run_emits
        ELSE IF r.call[1] = track.run_status
          THEN Min(track.run_emits + emitted, 2)
          ELSE emitted]

Iterate(level, dt, r) ==
  LET report == IF r.call = <<>>
                  THEN [last_status |-> last_status, printed |-> <<>>]
                  ELSE update_and_report_status(last_status, r.call[1])
  IN /\ beep_durations' = r.beeps
     /\ inter_beep_durations' = r.gaps
     /\ current_beep_start_time' = r.cbs
     /\ last_beep_end_time' = r.lbe
     /\ last_status' = report.last_status
     /\ stdout' = IF report.printed = <<>> THEN stdout ELSE report.printed[1]
     /\ line' = Held(level, dt)
     /\ source' = Consumed
     /\ polls' = polls + 1
     /\ obs' = [level |-> level, dt |-> dt, measured |-> r.measured,
                committed |-> r.committed, popped |-> r.popped,
                evicted |-> \/ r.committed = "beep" /\ Len(beep_durations) = MAX_ENTRIES
                            \/ r.committed = "gap" /\ Len(inter_beep_durations) = MAX_ENTRIES,
                call |-> IF r.call = <<>> THEN "None" ELSE r.call[1],
                args |-> r.args,
                printed |-> IF report.printed = <<>> THEN "None" ELSE report.printed[1]]
     /\ track' = Tracked(level, r, report.printed)
     /\ UNCHANGED <<MAX_BOUNCE_DURATION, margin_conv, classify, callback>>

PollLow ==
  \E dt \in Delays :
    /\ Offers("Low", dt)
    /\ Iterate("Low", dt, LowBranch(dt))

PollHigh ==
  \E dt \in Delays :
    /\ Offers("High", dt)
    /\ Iterate("High", dt, HighBranch(dt))

PollTimeout ==
  /\ Offers("Timeout", TIMEOUT_DURATION)
  /\ Iterate("Timeout", TIMEOUT_DURATION, TimeoutBranch)

Next == PollLow \/ PollHigh \/ PollTimeout

-----------------------------------------------------------------------------
(* The callback variant, src/main.rs.  rppal calls the closure of line 19  *)
(* for every edge; invocations may overlap.  Instants are readings of one  *)
(* monotonic clock, in milliseconds.                                       *)

\* Handler threads, edges delivered in all, and the latest clock reading.
NumHandlers == 2
MaxCalls == 3
MaxClock == 1500

Handlers == 1..NumHandlers

\* steps of one invocation between taking the mutex and dropping the guard
Critical == {"now", "measure", "store", "stamp", "print", "unlock"}

\* lines 25, 29: now.duration_since(earlier).as_millis() as u32;
\* duration_since is zero when earlier is later than now, and the cast
\* keeps every value below 2^32 ms, which MaxClock is
elapsed_millis(now, earlier) ==
  IF now > earlier THEN now - earlier ELSE 0

\* lines 23-38 run as a whole on the tuple
handler(data, level, now) ==
  IF level = "High"
    THEN [data EXCEPT !.gap_duration = elapsed_millis(now, data.last_beep),
                      !.last_beep = now]
    ELSE [data EXCEPT !.beep_duration = elapsed_millis(now, data.last_beep),
                      !.last_beep = now]

\* lines 12-19: the tuple behind the mutex, the mutex free, no handler running
Registered ==
  [data |-> [beep_duration |-> 0, gap_duration |-> 0, last_beep |-> 0],
   holder |-> 0,
   pc |-> [h \in Handlers |-> "idle"],
   level |-> [h \in Handlers |-> "None"],
   now |-> [h \in Handlers |-> 0],
   millis |-> [h \in Handlers |-> 0],
   clock |-> 0,
   calls |-> 0,
   waited |-> FALSE,
   serial |-> [beep_duration |-> 0, gap_duration |-> 0, last_beep |-> 0],
   printed |-> <<>>]

\* a lock that never waits
LockAnyway(h) == TRUE

\* line 20: Mutex::lock returns once no other guard is alive
CanLock(h) == callback.holder = 0

\* line 19: an edge arrives and the closure is entered
Deliver(h) ==
  /\ callback.pc[h] = "idle"
  /\ callback.calls < MaxCalls
  /\ \E level \in {"Low", "High"} :
       callback' = [callback EXCEPT !.pc[h] = "lock", !.level[h] = level,
                                    !.calls = @ + 1,
                                    !.waited = @ \/ callback.holder # 0]
  /\ UNCHANGED <<decoder, MAX_BOUNCE_DURATION, margin_conv, classify>>

\* line 20
Lock(h) ==
  /\ callback.pc[h] = "lock"
  /\ CanLock(h)
  /\ callback' = [callback EXCEPT !.pc[h] = "now", !.holder = h]
  /\ UNCHANGED <<decoder, MAX_BOUNCE_DURATION, margin_conv, classify>>

\* line 21; from here on the invocation's place in the serial order is fixed
ReadNow(h) ==
  /\ callback.pc[h] = "now"
  /\ callback' = [callback EXCEPT
                    !.pc[h] = "measure", !.now[h] = callback.clock,
                    !.serial = handler(@, callback.level[h], callback.clock)]
  /\ UNCHANGED <<decoder, MAX_BOUNCE_DURATION, margin_conv, classify>>

\* lines 25, 29, right-hand side: data.2 is read
Measure(h) ==
  /\ callback.pc[h] = "measure"
  /\ callback' = [callback EXCEPT
                    !.pc[h] = "store",
                    !.millis[h] = elapsed_millis(callback.now[h],
                                                 callback.data.last_beep)]
  /\ UNCHANGED <<decoder, MAX_BOUNCE_DURATION, margin_conv, classify>>

\* lines 25, 29, assignment: data.1 or data.0 is written
Store(h) ==
  /\ callback.pc[h] = "store"
  /\ callback' =
       IF callback.level[h] = "High"
         THEN [callback EXCEPT !.pc[h] = "stamp",
                               !.data.gap_duration = callback.millis[h]]
         ELSE [callback EXCEPT !.pc[h] = "stamp",
                               !.data.beep_duration = callback.millis[h]]
  /\ UNCHANGED <<decoder, MAX_BOUNCE_DURATION, margin_conv, classify>>

\* lines 26, 30
Stamp(h) ==
  /\ callback.pc[h] = "stamp"
  /\ callback' = [callback EXCEPT
                    !.pc[h] = IF callback.level[h] = "Low" THEN "print" ELSE "unlock",
                    !.data.last_beep = callback.now[h]]
  /\ UNCHANGED <<decoder, MAX_BOUNCE_DURATION, margin_conv, classify>>

\* lines 32-36: data.0 and data.1 are read and printed
Report(h) ==
  /\ callback.pc[h] = "print"
  /\ callback' = [callback EXCEPT
                    !.pc[h] = "unlock",
                    !.printed =
                       <<callback.data.beep_duration, callback.data.gap_duration,
                         /\ callback.data.beep_duration = 250
                         /\ callback.data.gap_duration = 1000>>]
  /\ UNCHANGED <<decoder, MAX_BOUNCE_DURATION, margin_conv, classify>>

\* line 39: the guard goes out of scope
Unlock(h) ==
  /\ callback.pc[h] = "unlock"
  /\ callback' = [callback EXCEPT !.pc[h] = "idle", !.holder = 0]
  /\ UNCHANGED <<decoder, MAX_BOUNCE_DURATION, margin_conv, classify>>

\* time passes, in steps that can add up to the durations of line 34
Advance ==
  /\ \E dt \in {250, 1000} :
       /\ callback.clock + dt <= MaxClock
       /\ callback' = [callback EXCEPT !.clock = @ + dt]
  /\ UNCHANGED <<decoder, MAX_BOUNCE_DURATION, margin_conv, classify>>

NextCallback ==
  \/ \E h \in Handlers :
       \/ Deliver(h) \/ Lock(h) \/ ReadNow(h) \/ Measure(h)
       \/ Store(h) \/ Stamp(h) \/ Report(h) \/ Unlock(h)
  \/ Advance

-----------------------------------------------------------------------------
(* Initial states.                                                         *)

\* lines 64-70, before the first poll
Start(src, call) ==
  /\ beep_durations = <<>>
  /\ inter_beep_durations = <<>>
  /\ current_beep_start_time = None
  /\ last_beep_end_time = None
  /\ last_status = "None"
  /\ MAX_BOUNCE_DURATION \in {BEEP_BOUNCE_MAX_DURATION, INTER_BEEP_BOUNCE_MAX_DURATION}
  /\ margin_conv \in {"ERROR_MARGIN", "as_secs_f64"}
  /\ stdout = "None"
  /\ line = [level |-> "None", held |-> 0]
  /\ source = src
  /\ polls = 0
  /\ obs = [level |-> "None", dt |-> 0, measured |-> None, committed |-> "none",
            popped |-> "none", evicted |-> FALSE, call |-> "None", args |-> <<>>,
            printed |-> "None"]
  /\ track = [before_start |-> [beeps |-> 0, gaps |-> <<>>, committed |-> FALSE],
              bounced |-> None, merged |-> None,
              run_status |-> "None", run_emits |-> 0]
  /\ classify = call
  /\ callback = Registered

\* no stand-alone call of the classifier
NoCall == [table |-> "STATUS_BEEP_DURATIONS", beep |-> 0, gap |-> 0,
           result |-> "None"]

Free(grid, max_held, horizon) ==
  [mode |-> "free", grid |-> grid, max_held |-> max_held, horizon |-> horizon,
   script |-> <<>>, row |-> 0, offset |-> 0]

\* Bounds of the free edge source.
ShortPulse == 10
MaxPolls == 9
MaxPollsFull == 24

MixedGrid == {ShortPulse, TARGET_NORMAL_BEEP_DURATION, TARGET_LONG_BEEP_DURATION,
              4 * 1000}

Init == Start(Free(MixedGrid, 4 * 1000, MaxPolls), NoCall)

Spec == Init /\ [][Next]_vars

-----------------------------------------------------------------------------
(* The history under a long run: one committable duration and one bounce,  *)
(* so that both histories fill up and overflow within the horizon.         *)

InitFull ==
  Start(Free({ShortPulse, 1 * 1000}, TIMEOUT_DURATION, MaxPollsFull), NoCall)

SpecFull == InitFull /\ [][Next]_vars

\* C1: after any sequence of Low edges, High edges and timeouts, bounces and
\* repeated edges of one level included, each of the two histories holds at
\* most MAX_ENTRIES entries.
HistoryBound ==
  /\ Len(beep_durations) <= MAX_ENTRIES
  /\ Len(inter_beep_durations) <= MAX_ENTRIES

\* a duration was committed to a history that was already full
HistoryOverflowed ==
  /\ obs.evicted
  /\ Len(beep_durations) = MAX_ENTRIES
  /\ Len(inter_beep_durations) = MAX_ENTRIES

-----------------------------------------------------------------------------
(* The reporter.                                                           *)

\* C2: a line is printed only when the status handed to the reporter differs
\* from last_status, and always then (the first status after startup
\* included); afterwards last_status is the status handed over; a printed
\* line never repeats the line printed before it; and a run of equal
\* classifications has printed exactly one line.
ReportDedup ==
  /\ [](/\ obs.call # "None" => last_status = obs.call
        /\ obs.printed # "None" => obs.printed = obs.call /\ stdout = obs.printed
        /\ track.run_status # "None" => track.run_emits = 1)
  /\ [][/\ obs'.printed # "None" <=> (obs'.call # "None" /\ obs'.call # last_status)
        /\ obs'.printed # "None" => obs'.printed # stdout]_vars

\* a classification repeated the status reported before it and printed nothing
RepeatedStatusSilent ==
  /\ obs.call # "None"
  /\ obs.printed = "None"
  /\ stdout = obs.call
  /\ track.run_emits = 1

-----------------------------------------------------------------------------
(* Timeouts.                                                               *)

\* C4: a timeout with both histories non-empty and exactly one marker
\* pending hands OnMains to the reporter when the gap-end marker is the
\* pending one and OverTemperatureOnBatteryOrInternalError when the
\* beep-start marker is.
TimeoutStallReported ==
  (obs.level = "Timeout" /\ beep_durations # <<>> /\ inter_beep_durations # <<>>)
    => /\ (current_beep_start_time = None /\ last_beep_end_time # None)
            => obs.call = "OnMains"
       /\ (current_beep_start_time # None /\ last_beep_end_time = None)
            => obs.call = "OverTemperatureOnBatteryOrInternalError"

\* C5: whenever both histories are non-empty exactly one of the two markers
\* is set, so a timeout never reaches the branch of line 144: every status
\* a timeout reports comes out of get_status_from_beep_durations.
TimeoutElseUnreachable ==
  /\ (beep_durations # <<>> /\ inter_beep_durations # <<>>)
       => (current_beep_start_time = None) # (last_beep_end_time = None)
  /\ (obs.level = "Timeout" /\ obs.call # "None") => obs.args # <<>>

\* a timeout classified with both histories non-empty
TimeoutClassified ==
  /\ obs.level = "Timeout"
  /\ obs.call # "None"
  /\ beep_durations # <<>>
  /\ inter_beep_durations # <<>>

-----------------------------------------------------------------------------
(* Bounces.                                                                *)

\* C7: a beep no longer than the bounce threshold is never pushed; the gap
\* entry committed when that beep started is removed again; and when the
\* next, longer beep has ended the beep history holds at most one entry more
\* than before the bounce beep started.
BounceBeepMerged ==
  /\ [](track.merged # None => Len(beep_durations) <= track.merged[1] + 1)
  /\ [][(/\ obs'.level = "Low"
         /\ obs'.measured # None
         /\ obs'.measured[1] <= MAX_BOUNCE_DURATION)
          => /\ beep_durations' = beep_durations
             /\ track.before_start.committed
                  => inter_beep_durations' =
                       IF Len(track.before_start.gaps) = MAX_ENTRIES
                         THEN Tail(track.before_start.gaps)
                         ELSE track.before_start.gaps]_vars

\* a longer beep has just ended after a bounce beep whose start had committed
\* a gap, and the beep history has gained exactly one entry
LongerBeepAfterBounce ==
  /\ track.merged # None
  /\ track.merged[2]
  /\ obs.committed = "beep"
  /\ Len(beep_durations) = track.merged[1] + 1

-----------------------------------------------------------------------------
(* Polarity.                                                               *)

\* C10 as claimed: a beep is committed by the High edge that ends a Low
\* period, a gap by the Low edge that ends a High period.
LowIsBeep ==
  /\ obs.committed = "beep" => obs.level = "High"
  /\ obs.committed = "gap" => obs.level = "Low"

\* C10 as amended: a High edge starts a beep and a Low edge ends it; every
\* duration committed to the beep history is the time the line was held High,
\* from the first High edge after a Low one to the next Low edge, and every
\* duration committed to the gap history is the time it was held Low.
HighIsBeep ==
  [][/\ obs'.committed = "beep"
          => /\ line.level = "High" /\ obs'.level = "Low"
             /\ Last(beep_durations') = line.held + obs'.dt
     /\ obs'.committed = "gap"
          => /\ line.level = "Low" /\ obs'.level = "High"
             /\ Last(inter_beep_durations') = line.held + obs'.dt]_vars

\* a beep was committed after the line had been held High across a repeated
\* High edge or a timeout
BeepHeldHighCommitted ==
  /\ obs.committed = "beep"
  /\ obs.level = "Low"
  /\ obs.measured # None
  /\ obs.measured[1] > obs.dt

-----------------------------------------------------------------------------
(* The classifier on its own: get_status_from_beep_durations applied to    *)
(* durations on and around the tolerance limits of every target, once on   *)
(* the program's table and once on a table whose two rows overlap.         *)

OverlappingTable ==
  << Row("LowOnBattery", TARGET_NORMAL_BEEP_DURATION, 1 * 1000),
     Row("OverloadOrShortCircuitOnBattery", TARGET_NORMAL_BEEP_DURATION + 10,
         1 * 1000 + 40) >>

TableOf(name) ==
  IF name = "STATUS_BEEP_DURATIONS" THEN STATUS_BEEP_DURATIONS ELSE OverlappingTable

Rows(table) == {table[i] : i \in 1..Len(table)}

Around(t) ==
  LET m == (t * ERROR_MARGIN.num) \div ERROR_MARGIN.den
  IN {t - m - 1, t - m, t - m + 1, t, t + m - 1, t + m, t + m + 1} \cap Nat

BeepInputs ==
  UNION {Around(r.beep) : r \in Rows(STATUS_BEEP_DURATIONS) \cup Rows(OverlappingTable)}
    \cup {ShortPulse, 999}

\* the limits of the gap comparison when the margin is the bounce constant
\* in seconds
AroundWide(t) ==
  LET m == (t * INTER_BEEP_BOUNCE_MAX_DURATION) \div 1000
  IN {t - m - 1, t - m, t - m + 1, t + m - 1, t + m, t + m + 1} \cap Nat

GapInputs ==
  UNION {Around(r.gap) \cup AroundWide(r.gap) :
           r \in Rows(STATUS_BEEP_DURATIONS) \cup Rows(OverlappingTable)}

InitClassify ==
  \E t \in {"STATUS_BEEP_DURATIONS", "OverlappingTable"} :
    \E b \in BeepInputs : \E g \in GapInputs :
      Start(Free({}, 0, 0), [table |-> t, beep |-> b, gap |-> g, result |-> "None"])

CallClassifier ==
  /\ classify.result = "None"
  /\ classify' =
       [classify EXCEPT !.result =
          IF classify.table = "STATUS_BEEP_DURATIONS"
            THEN get_status_from_beep_durations(classify.beep, classify.gap)
            ELSE ScanTable(OverlappingTable, classify.beep, classify.gap)]
  /\ UNCHANGED <<decoder, MAX_BOUNCE_DURATION, margin_conv, callback>>

SpecClassify == InitClassify /\ [][CallClassifier]_vars

Shipped == classify.table = "STATUS_BEEP_DURATIONS" /\ classify.result # "None"

\* C3: for every row of the table, the zero-target rows included, the
\* classifier applied to exactly that row's targets returns that row's
\* status.
ExactTargetsClassify ==
  Shipped =>
    \A r \in Rows(STATUS_BEEP_DURATIONS) :
      (classify.beep = r.beep /\ classify.gap = r.gap) => classify.result = r.status

Within5(actual, target) == Abs(actual - target) * 100 < target * 5

\* C8: for every row with two non-zero targets, a beep strictly within 5% of
\* the beep target together with a gap strictly within 5% of the gap target
\* gives that row's status; (250, 60000) gives OnBattery, (250, 1000)
\* LowOnBattery, (2000, 13000) AdvanceLowRuntimeOnMains; and a 999 ms beep
\* gives Unknown whatever the gap.
WithinTolerance ==
  Shipped =>
    /\ \A r \in Rows(STATUS_BEEP_DURATIONS) :
         (/\ r.beep # 0 /\ r.gap # 0
          /\ Within5(classify.beep, r.beep)
          /\ Within5(classify.gap, r.gap)) => classify.result = r.status
    /\ (classify.beep = 250 /\ classify.gap = 60000) => classify.result = "OnBattery"
    /\ (classify.beep = 250 /\ classify.gap = 1000) => classify.result = "LowOnBattery"
    /\ (classify.beep = 2000 /\ classify.gap = 13000)
         => classify.result = "AdvanceLowRuntimeOnMains"
    /\ classify.beep = 999 => classify.result = "Unknown"

\* a beep and a gap both off their targets, just inside 5%, were classified
NearTargetsClassified ==
  /\ Shipped
  /\ classify.beep = 261
  /\ classify.gap = 1049
  /\ classify.result = "LowOnBattery"

\* C9: the classifier returns the status of the first row, in the order of the
\* table, whose beep comparison and gap comparison both pass, and Unknown
\* exactly when no row passes both; on the overlapping table the earlier row
\* wins even for an input that is exactly the later row's targets.
FirstMatchWins ==
  classify.result # "None" =>
    LET table == TableOf(classify.table)
        hits == {i \in 1..Len(table) :
                   RowMatches(table[i], classify.beep, classify.gap)}
    IN /\ hits = {} <=> classify.result = "Unknown"
       /\ \A i \in hits :
            (\A j \in hits : i <= j) => classify.result = table[i].status

\* the later row's exact targets were classified as the earlier row
EarlierRowWon ==
  /\ classify.table = "OverlappingTable"
  /\ classify.beep = OverlappingTable[2].beep
  /\ classify.gap = OverlappingTable[2].gap
  /\ classify.result = OverlappingTable[1].status

-----------------------------------------------------------------------------
(* A steady stream with one glitch.  The line repeats the beep and the gap *)
(* of one row of the table (beeps being what the decoder takes for beeps:  *)
(* High edge to Low edge); inside one gap a pulse of ShortPulse ms         *)
(* appears, `offset` ms into the gap.  An edge that is due more than       *)
(* TIMEOUT_DURATION after the previous poll returned is preceded by the    *)
(* timeouts that poll_interrupt returns in between.                        *)

RECURSIVE Wait(_, _)
Wait(w, level) ==
  IF w > TIMEOUT_DURATION
    THEN <<Event("Timeout", TIMEOUT_DURATION)>> \o Wait(w - TIMEOUT_DURATION, level)
    ELSE <<Event(level, w)>>

Cycle(row) == Wait(row.gap, "High") \o Wait(row.beep, "Low")

RECURSIVE Cycles(_, _)
Cycles(row, n) == IF n = 0 THEN <<>> ELSE Cycle(row) \o Cycles(row, n - 1)

GlitchedCycle(row, offset) ==
  Wait(offset, "High") \o Wait(ShortPulse, "Low")
    \o Wait(row.gap - offset - ShortPulse, "High") \o Wait(row.beep, "Low")

\* Number of undisturbed cycles before the glitch.
SteadyCycles == 2

Glitched(i, offset) ==
  LET row == STATUS_BEEP_DURATIONS[i]
  IN [mode |-> "script", grid |-> {}, max_held |-> 0, horizon |-> 0,
      script |-> Cycles(row, SteadyCycles) \o GlitchedCycle(row, offset),
      row |-> i, offset |-> offset]

GlitchOffsets(row) ==
  {2 * ShortPulse, row.gap \div 2, row.gap - 2 * ShortPulse}

InitGlitch ==
  \E i \in {j \in 1..Len(STATUS_BEEP_DURATIONS) :
              STATUS_BEEP_DURATIONS[j].beep # 0 /\ STATUS_BEEP_DURATIONS[j].gap # 0} :
    \E offset \in GlitchOffsets(STATUS_BEEP_DURATIONS[i]) :
      Start(Glitched(i, offset), NoCall)

SpecGlitch == InitGlitch /\ [][Next]_vars

\* C6: in a steady stream of valid beeps and gaps of one row, a beep glitch
\* shorter than the bounce threshold inside one gap makes no edge print
\* Unknown, and the classification at the end of the next valid beep is
\* still that row.
GlitchIgnored ==
  (/\ source.mode = "script"
   /\ STATUS_BEEP_DURATIONS[source.row].beep > MAX_BOUNCE_DURATION)
    => LET row == STATUS_BEEP_DURATIONS[source.row]
           after == Len(source.script) < Len(GlitchedCycle(row, source.offset))
       IN /\ (after /\ obs.level # "Timeout") => obs.printed # "Unknown"
          /\ source.script = <<>>
               => obs.call = row.status

-----------------------------------------------------------------------------
(* What an edge and a timeout do, step by step.                            *)

Edge(level) == level \in {"Low", "High"}

Silent == /\ obs'.call = "None"
          /\ obs'.printed = "None"
          /\ last_status' = last_status
          /\ stdout' = stdout

\* C12: an edge classifies only when it is a beep end that commits a beep
\* (one longer than the bounce threshold) while the gap history is
\* non-empty, and then always; the pair classified is the beep just measured
\* and the newest gap entry.  A bounce beep end, a beep committed with an
\* empty gap history and every beep-start edge classify and print nothing.
EdgeClassifiesOnCommit ==
  [][Edge(obs'.level) =>
       LET ends == /\ obs'.level = "Low"
                   /\ current_beep_start_time # None
                   /\ current_beep_start_time[1] + obs'.dt > MAX_BOUNCE_DURATION
       IN /\ obs'.call # "None" <=> (ends /\ inter_beep_durations # <<>>)
          /\ obs'.call # "None"
               => /\ obs'.args =
                       <<current_beep_start_time[1] + obs'.dt,
                         inter_beep_durations[Len(inter_beep_durations)]>>
                  /\ beep_durations'[Len(beep_durations')] = obs'.args[1]
                  /\ inter_beep_durations' = inter_beep_durations
          /\ obs'.call = "None" => Silent]_vars

\* a beep end classified a pair whose beep and gap differ from the oldest
\* entries of the two histories
NewestPairClassified ==
  /\ obs.level = "Low"
  /\ obs.call # "None"
  /\ Len(beep_durations) > 1
  /\ Len(inter_beep_durations) > 1
  /\ obs.args # <<beep_durations[1], inter_beep_durations[1]>>

Dropped(history) ==
  IF history = <<>> THEN history ELSE SubSeq(history, 1, Len(history) - 1)

\* C13: a beep end that measures a beep not longer than the bounce threshold
\* pushes nothing, removes the newest gap entry if there is one, leaves the
\* beep history alone and clears the beep-start marker; a beep start that
\* measures a gap not longer than the threshold pushes nothing, removes the
\* newest beep entry if there is one, leaves the gap history alone and clears
\* the gap-end marker.
BounceCorrection ==
  [][/\ (/\ obs'.level = "Low"
         /\ current_beep_start_time # None
         /\ current_beep_start_time[1] + obs'.dt <= MAX_BOUNCE_DURATION)
          => /\ beep_durations' = beep_durations
             /\ inter_beep_durations' = Dropped(inter_beep_durations)
             /\ current_beep_start_time' = None
     /\ (/\ obs'.level = "High"
         /\ last_beep_end_time # None
         /\ last_beep_end_time[1] + obs'.dt <= MAX_BOUNCE_DURATION)
          => /\ inter_beep_durations' = inter_beep_durations
             /\ beep_durations' = Dropped(beep_durations)
             /\ last_beep_end_time' = None]_vars

\* a bounce gap has just removed a beep entry from a history of several
BounceGapPopped ==
  /\ obs.level = "High"
  /\ obs.popped = "beep"
  /\ obs.committed = "none"
  /\ beep_durations # <<>>

\* C14: a measured beep is committed exactly when it is longer than
\* BEEP_BOUNCE_MAX_DURATION and a measured gap exactly when it is longer than
\* INTER_BEEP_BOUNCE_MAX_DURATION.
TwoThresholds ==
  obs.measured # None =>
    /\ obs.level = "Low"
         => (obs.committed = "beep" <=> obs.measured[1] > BEEP_BOUNCE_MAX_DURATION)
    /\ obs.level = "High"
         => (obs.committed = "gap"
               <=> obs.measured[1] > INTER_BEEP_BOUNCE_MAX_DURATION)

\* C15: an edge of the level of the edge processed before it, whatever
\* timeouts came in between, changes neither history, classifies and prints
\* nothing, and leaves each marker holding the instant it held.
RepeatedEdgeIgnored ==
  [][(Edge(obs'.level) /\ obs'.level = line.level)
       => /\ beep_durations' = beep_durations
          /\ inter_beep_durations' = inter_beep_durations
          /\ current_beep_start_time' = Tick(current_beep_start_time, obs'.dt)
          /\ last_beep_end_time' = Tick(last_beep_end_time, obs'.dt)
          /\ Silent]_vars

\* a Low edge has just followed a Low edge and a timeout, with a beep and a
\* gap on record
LowEdgeRepeated ==
  /\ obs.level = "Low"
  /\ line.held > TIMEOUT_DURATION
  /\ beep_durations # <<>>
  /\ inter_beep_durations # <<>>

\* C16: a timeout changes neither history and leaves each marker holding the
\* instant it held; when a history is empty it also classifies nothing,
\* prints nothing and leaves last_status alone.
TimeoutFrame ==
  [][obs'.level = "Timeout"
       => /\ beep_durations' = beep_durations
          /\ inter_beep_durations' = inter_beep_durations
          /\ current_beep_start_time' = Tick(current_beep_start_time, TIMEOUT_DURATION)
          /\ last_beep_end_time' = Tick(last_beep_end_time, TIMEOUT_DURATION)
          /\ (beep_durations = <<>> \/ inter_beep_durations = <<>>) => Silent]_vars

\* a timeout has passed with a marker pending and exactly one history empty
TimeoutWithEmptyHistory ==
  /\ obs.level = "Timeout"
  /\ (beep_durations = <<>>) # (inter_beep_durations = <<>>)
  /\ obs.call = "None"

-----------------------------------------------------------------------------
(* Eviction order: a stream whose beeps and gaps all differ, longer than   *)
(* the histories.                                                          *)

\* Number of cycles of the stream.
RampCycles == 12

RampBeep(i, skew) == 350 + 100 * i + skew
RampGap(i, skew) == 400 + 250 * i + skew

RECURSIVE Ramp(_, _, _)
Ramp(i, n, skew) ==
  IF i > n THEN <<>>
  ELSE Wait(RampGap(i, skew), "High") \o Wait(RampBeep(i, skew), "Low")
         \o Ramp(i + 1, n, skew)

Ramped(first, skew) ==
  [mode |-> "script", grid |-> {}, max_held |-> 0, horizon |-> 0,
   script |-> IF first = "Low" THEN Wait(TARGET_NORMAL_BEEP_DURATION, "Low")
                                      \o Ramp(1, RampCycles, skew)
              ELSE Ramp(1, RampCycles, skew),
   row |-> 0, offset |-> skew]

InitRamp ==
  \E first \in {"Low", "High"} :
    \E skew \in {0, ShortPulse, TARGET_NORMAL_BEEP_DURATION} :
      Start(Ramped(first, skew), NoCall)

SpecRamp == InitRamp /\ [][Next]_vars

\* C17: a duration committed to a history that already holds MAX_ENTRIES
\* entries leaves that history equal to its former entries without the first,
\* in their order, followed by the new duration, and the other history as it
\* was.
FifoEviction ==
  [][/\ (obs'.committed = "beep" /\ Len(beep_durations) = MAX_ENTRIES)
          => /\ beep_durations' = Tail(beep_durations) \o <<obs'.measured[1]>>
             /\ inter_beep_durations' = inter_beep_durations
     /\ (obs'.committed = "gap" /\ Len(inter_beep_durations) = MAX_ENTRIES)
          => /\ inter_beep_durations' =
                  Tail(inter_beep_durations) \o <<obs'.measured[1]>>
             /\ beep_durations' = beep_durations]_vars

\* a gap has just been committed to a full gap history whose entries all
\* differ, and a beep has been evicted before
OldestGapEvicted ==
  /\ obs.evicted
  /\ obs.committed = "gap"
  /\ Len(inter_beep_durations) = MAX_ENTRIES
  /\ Cardinality({inter_beep_durations[i] : i \in 1..MAX_ENTRIES}) = MAX_ENTRIES
  /\ inter_beep_durations[1] = RampGap(RampCycles - MAX_ENTRIES + 1, source.offset)
  /\ beep_durations[1] = RampBeep(RampCycles - MAX_ENTRIES, source.offset)

\* C20: the lengths of the beep history and of the gap history differ by at
\* most one.
LengthsWithinOne ==
  Abs(Len(beep_durations) - Len(inter_beep_durations)) <= 1

\* a bounce has just removed an entry from a full history next to a full one
BounceAtCapacity ==
  /\ obs.popped # "none"
  /\ MAX_ENTRIES \in {Len(beep_durations), Len(inter_beep_durations)}
  /\ Len(beep_durations) # Len(inter_beep_durations)

\* C19: on the shipped table no pair of a beep and a gap passes both
\* comparisons of more than one row.
TableUnambiguous ==
  Shipped =>
    Cardinality({i \in 1..Len(STATUS_BEEP_DURATIONS) :
                   RowMatches(STATUS_BEEP_DURATIONS[i], classify.beep, classify.gap)})
      <= 1

\* a gap just inside the widest margin of one row, and short of the next
\* row's, was classified as the former
WidestMarginOneRow ==
  /\ Shipped
  /\ margin_conv = "as_secs_f64"
  /\ classify.beep = TARGET_NORMAL_BEEP_DURATION
  /\ classify.gap = 1299
  /\ classify.result = "LowOnBattery"

-----------------------------------------------------------------------------
(* Recovery: after any run of edges and timeouts the line settles into a   *)
(* steady stream of one row's beeps and gaps, each `jitter` ms over its    *)
(* target and within the comparison's margin.                              *)

\* Polls before the line settles, and beeps of the steady stream.
MaxPollsHeal == 4
PatternBeeps == 3

NonZeroRows ==
  {i \in 1..Len(STATUS_BEEP_DURATIONS) :
     STATUS_BEEP_DURATIONS[i].beep # 0 /\ STATUS_BEEP_DURATIONS[i].gap # 0}

Steady(i, jitter) ==
  [STATUS_BEEP_DURATIONS[i] EXCEPT !.beep = @ + jitter, !.gap = @ + jitter]

\* the stream starts with a whole gap, or with the end of a beep under way
Pattern(i, jitter, first) ==
  [mode |-> "script", grid |-> {}, max_held |-> 0, horizon |-> 0,
   script |-> IF first = "Low"
                THEN Wait(Steady(i, jitter).beep, "Low")
                       \o Cycles(Steady(i, jitter), PatternBeeps)
                ELSE Cycles(Steady(i, jitter), PatternBeeps),
   row |-> i, offset |-> jitter]

Settle ==
  /\ source.mode = "free"
  /\ \E i \in NonZeroRows : \E jitter \in {0, ShortPulse} :
       \E first \in {"Low", "High"} :
         source' = Pattern(i, jitter, first)
  /\ UNCHANGED <<beep_durations, inter_beep_durations, current_beep_start_time,
                 last_beep_end_time, last_status, MAX_BOUNCE_DURATION,
                 margin_conv, stdout, line, polls, obs, track, classify,
                 callback>>

InitHeal == Start(Free(MixedGrid, 4 * 1000, MaxPollsHeal), NoCall)

NextHeal == Next \/ Settle

SpecHeal == InitHeal /\ [][NextHeal]_vars

RECURSIVE BeepEndsLeft(_)
BeepEndsLeft(script) ==
  IF script = <<>> THEN 0
  ELSE (IF Head(script).level = "Low" THEN 1 ELSE 0) + BeepEndsLeft(Tail(script))

\* whole beeps of the steady stream that have ended
BeepsEnded == PatternBeeps - BeepEndsLeft(source.script)

\* the stream is steady and free of bounces in this build
Healing ==
  /\ source.mode = "script"
  /\ Steady(source.row, source.offset).beep > MAX_BOUNCE_DURATION
  /\ Steady(source.row, source.offset).gap > MAX_BOUNCE_DURATION

\* C18 as stated: whatever the state the stream starts in, from the end of
\* its second beep on last_status is the row's status, and stays so while the
\* stream lasts.
SelfHealing ==
  (Healing /\ BeepsEnded >= 2)
    => last_status = STATUS_BEEP_DURATIONS[source.row].status

\* C18: whatever the state the stream starts in, the end of its second beep
\* and of every later beep classifies the row and leaves last_status at the
\* row's status; last_status stays there between beeps when the row's gap is
\* not longer than TIMEOUT_DURATION, so that no poll times out in the stream.
SelfHealingAtBeepEnds ==
  (Healing /\ BeepsEnded >= 2)
    => LET row == STATUS_BEEP_DURATIONS[source.row]
       IN /\ obs.level = "Low"
               => obs.call = row.status /\ last_status = row.status
          /\ Steady(source.row, source.offset).gap <= TIMEOUT_DURATION
               => last_status = row.status

\* the third beep of a row with a gap longer than the timeout printed the
\* row's status again, on top of entries the earlier run left behind
HealedAfterTimeouts ==
  /\ Healing
  /\ BeepsEnded = PatternBeeps
  /\ STATUS_BEEP_DURATIONS[source.row].gap > TIMEOUT_DURATION
  /\ Len(beep_durations) > PatternBeeps
  /\ obs.printed = STATUS_BEEP_DURATIONS[source.row].status

-----------------------------------------------------------------------------
(* The callback variant on its own.                                        *)

InitCallback == Start(Free({}, 0, 0), NoCall)

SpecCallback == InitCallback /\ [][NextCallback]_vars

\* C11: a handler between line 21 and its return holds the mutex, so every
\* read and write of the tuple is made under it and at most one invocation
\* is at work on the tuple at a time; whenever the mutex is free the tuple is
\* what the invocations so far give when run one after another, each as a
\* whole, in the order they took the mutex.
CallbackSerialized ==
  /\ \A h \in Handlers : callback.pc[h] \in Critical => callback.holder = h
  /\ Cardinality({h \in Handlers : callback.pc[h] \in Critical}) <= 1
  /\ callback.holder = 0 => callback.data = callback.serial

\* all edges have been handled, one of them arrived while another was being
\* handled, and the last one printed a 250 ms beep after a 1000 ms gap
OverlappingEdgesHandled ==
  /\ callback.calls = MaxCalls
  /\ \A h \in Handlers : callback.pc[h] = "idle"
  /\ callback.waited
  /\ callback.printed = <<250, 1000, TRUE>>

====
